---- MODULE Spec2Model ----
(***************************************************************************)
(* Model of the versioned attribute macro of cyclonedx-bom-macros        *)
(* (src/cyclonedx-bom-macros/src/lib.rs): Version / VersionReq parsing,    *)
(* VersionFilter (extract_requirement and the Fold overrides) and the      *)
(* emission loop of helper.                                              *)
(*                                                                         *)
(* Text is a sequence of one-character strings.  A syntax node is a record *)
(* [kind, attrs, kids]; kids lists the node's children in the order in     *)
(* which syn's generated fold visits them.  An attribute is a record       *)
(* [path, lit, arg, span]: lit says whether its argument is one string     *)
(* literal, arg is the literal's value, span its source location.          *)
(* Option values: None is <<>>, Some(x) is <<x>>.                          *)
(***************************************************************************)
EXTENDS Integers, Sequences, FiniteSets, TLC

VARIABLES
    input,          \* helper: the string literals passed to the attribute
    module,         \* helper: the annotated module, [content |-> Option(items)]
    pc,             \* position in helper / in the filter harness
    versions,       \* helper: Vec<Version> parsed so far
    vi,             \* helper: index of the version being emitted
    items,          \* helper: the clone of the items still to fold
    folded_items,   \* helper: folded_items of the current version
    filter,         \* the VersionFilter in use, [version, error]
    tokens,         \* helper: the modules emitted so far
    result,         \* helper: its return value, Option(Ok(tokens) | Err(error))
    output,         \* versioned: the token stream handed back to the compiler
    log,            \* helper: <<version index, item index>> of every fold_item call
    tree,           \* harness: the item handed to the filter
    extracted,      \* harness: result of extract_requirement on tree.attrs
    once,           \* harness: result of the first fold_item pass
    twice           \* harness: result of folding the first pass' output again

vars == <<input, module, pc, versions, vi, items, folded_items, filter, tokens,
          result, output, log, tree, extracted, once, twice>>

----------------------------------------------------------------------------
(* Option and Result *)

None == <<>>

Some(x) == <<x>>

Ok(v) == [ok |-> TRUE, val |-> v]

Err(e) == [ok |-> FALSE, err |-> e]

----------------------------------------------------------------------------
(* Version and VersionReq, lib.rs:15-63 *)

Digits == {"0", "1", "2", "3", "4", "5", "6", "7", "8", "9"}

DigitVal(c) ==
    CASE c = "0" -> 0 [] c = "1" -> 1 [] c = "2" -> 2 [] c = "3" -> 3
      [] c = "4" -> 4 [] c = "5" -> 5 [] c = "6" -> 6 [] c = "7" -> 7
      [] c = "8" -> 8 [] c = "9" -> 9

DigitChar(d) ==
    CASE d = 0 -> "0" [] d = 1 -> "1" [] d = 2 -> "2" [] d = 3 -> "3"
      [] d = 4 -> "4" [] d = 5 -> "5" [] d = 6 -> "6" [] d = 7 -> "7"
      [] d = 8 -> "8" [] d = 9 -> "9"

RECURSIVE Decimal(_, _)
Decimal(s, acc) ==
    IF s = <<>> THEN acc ELSE Decimal(Tail(s), 10 * acc + DigitVal(Head(s)))

\* str::parse::<usize>: an optional leading "+", then one or more decimal
\* digits.  (The texts of this model are far too short to overflow usize.)
parse_usize(s) ==
    IF s = <<>> THEN Err("cannot parse integer from empty string")
    ELSE LET digits == IF Head(s) = "+" THEN Tail(s) ELSE s
         IN  IF digits = <<>> \/ \E i \in 1..Len(digits) : digits[i] \notin Digits
             THEN Err("invalid digit found in string")
             ELSE Ok(Decimal(digits, 0))

\* str::split_once('.'): the text before and after the first '.'
split_once(s) ==
    LET dots == {i \in 1..Len(s) : s[i] = "."}
    IN  IF dots = {} THEN None
        ELSE LET d == CHOOSE i \in dots : \A j \in dots : i <= j
             IN  Some(<<SubSeq(s, 1, d - 1), SubSeq(s, d + 1, Len(s))>>)

Version_from_str(s) ==
    LET parts == split_once(s)
    IN  IF parts = None THEN Err("missing dot")
        ELSE LET major == parse_usize(parts[1][1])
                 minor == parse_usize(parts[1][2])
             IN  IF ~major.ok THEN major
                 ELSE IF ~minor.ok THEN minor
                 ELSE Ok([major |-> major.val, minor |-> minor.val])

RECURSIVE to_string(_)
to_string(n) ==
    IF n < 10 THEN <<DigitChar(n)>> ELSE to_string(n \div 10) \o <<DigitChar(n % 10)>>

as_ident(version) ==
    <<"v">> \o to_string(version.major) \o <<"_">> \o to_string(version.minor)

VersionReq_from_str(s) ==
    LET v == Version_from_str(s)
    IN  IF v.ok THEN Ok([variant |-> "Exactly", version |-> v.val]) ELSE v

VersionReq_matches(req, version) ==
    CASE req.variant = "Exactly" -> version = req.version

----------------------------------------------------------------------------
(* Syntax nodes *)

Node(kind, attrs, kids) == [kind |-> kind, attrs |-> attrs, kids |-> kids]

\* The Item variants fold_item matches on (lib.rs:221-235)
TaggedItemKinds == {"ItemStruct", "ItemEnum", "ItemFn", "ItemMod", "ItemUse"}

ItemKinds == TaggedItemKinds \cup {"ItemVerbatim"}

\* The Stmt variants fold_stmt matches on (lib.rs:128-129)
TaggedStmtKinds == {"Local", "StmtMacro"}

StmtKinds == TaggedStmtKinds \cup {"StmtExpr"}

\* The Expr variants fold_expr matches on (lib.rs:144-181)
TaggedExprKinds == {"ExprBlock", "ExprCall", "ExprLit", "ExprStruct", "ExprMatch"}

ExprKinds == TaggedExprKinds \cup {"ExprVerbatim"}

FieldKinds == {"FieldNamed", "FieldUnnamed"}

\* parse_quote!(use {};), lib.rs:238-240
EmptyUse == Node("ItemUse", <<>>, <<>>)

\* parse_quote!({}), lib.rs:184
EmptyBlockExpr == Node("ExprBlock", <<>>, <<>>)

\* parse_quote!({};), lib.rs:132: the empty block as an expression statement
EmptyBlockStmt == Node("StmtExpr", <<>>, <<EmptyBlockExpr>>)

----------------------------------------------------------------------------
(* VersionFilter, lib.rs:65-113 *)

VersionFilter(version, error) == [version |-> version, error |-> error]

\* attr.parse_args::<syn::LitStr>().and_then(|s| s.value().parse()
\*     .map_err(|err| Error::new(s.span(), err))), lib.rs:78-80
parse_attr(attr) ==
    IF ~attr.lit
    THEN Err([span |-> attr.span, msg |-> "expected string literal"])
    ELSE LET r == VersionReq_from_str(attr.arg)
         IN  IF r.ok THEN r ELSE Err([span |-> attr.span, msg |-> r.err])

\* The closure of attrs.retain, applied to attrs[i], lib.rs:74-90.  acc holds
\* the attributes kept so far, opt_version and self.error.
RECURSIVE retain(_, _, _)
retain(attrs, i, acc) ==
    IF i > Len(attrs) THEN acc
    ELSE LET attr == attrs[i]
         IN  IF attr.path = "versioned"
             THEN LET r == parse_attr(attr)
                  IN  retain(attrs, i + 1,
                             IF r.ok THEN [acc EXCEPT !.req = Some(r.val)]
                                     ELSE [acc EXCEPT !.error = Some(r.err)])
             ELSE retain(attrs, i + 1, [acc EXCEPT !.attrs = Append(@, attr)])

\* Mutant: only the first versioned attribute is consumed
extract_first_only(self, attrs) ==
    LET vs == {i \in 1..Len(attrs) : attrs[i].path = "versioned"}
    IN  IF vs = {} THEN [attrs |-> attrs, req |-> None, error |-> self.error]
        ELSE LET f == CHOOSE i \in vs : \A j \in vs : i <= j
                 r == parse_attr(attrs[f])
             IN  [attrs |-> SubSeq(attrs, 1, f - 1) \o SubSeq(attrs, f + 1, Len(attrs)),
                  req   |-> IF r.ok THEN Some(r.val) ELSE None,
                  error |-> IF r.ok THEN self.error ELSE Some(r.err)]

\* Mutant: a versioned attribute that does not parse is dropped silently
extract_silent(self, attrs) ==
    [retain(attrs, 1, [attrs |-> <<>>, req |-> None, error |-> self.error])
        EXCEPT !.error = self.error]

\* Returns the attributes left in place, the requirement and the new self.error
extract_requirement(self, attrs) ==
    retain(attrs, 1, [attrs |-> <<>>, req |-> None, error |-> self.error])

\* Mutant: the comparison inverted
matches_inverted(self, requirement) == ~VersionReq_matches(requirement, self.version)

matches(self, requirement) == VersionReq_matches(requirement, self.version)

\* The filter_map over the pairs of a Punctuated list, lib.rs:103-111 (and the
\* same closure at lib.rs:197-204 and lib.rs:210-214): acc is [out, self].
\* The pair is kept unless its requirement does not match, lib.rs:106-109
filter_pair(acc, pair, r) ==
    [out  |-> IF r.req # None /\ ~matches(acc.self, r.req[1])
              THEN acc.out
              ELSE Append(acc.out, [pair EXCEPT !.attrs = r.attrs]),
     self |-> [acc.self EXCEPT !.error = r.error]]

RECURSIVE filter_map(_, _, _)
filter_map(nodes, i, acc) ==
    IF i > Len(nodes) THEN acc
    ELSE filter_map(nodes, i + 1,
                    filter_pair(acc, nodes[i],
                                extract_requirement(acc.self, nodes[i].attrs)))

filter_fields(self, fields) ==
    filter_map(fields, 1, [out |-> <<>>, self |-> self])

----------------------------------------------------------------------------
(* impl Fold for VersionFilter, lib.rs:115-249.  Every fold returns          *)
(* [out, self]: the folded node or nodes and the filter afterwards.          *)

fold_fields_named(self, fields) == filter_fields(self, fields)

fold_fields_unnamed(self, fields) == filter_fields(self, fields)

\* if let Some(version) = self.extract_requirement(attrs) {
\*     if !self.matches(&version) { node = placeholder } }
\* (lib.rs:130-134, 182-186, 236-242), given r = extract_requirement's result
replace_unless_matching(self, node, placeholder, r) ==
    [out  |-> IF r.req # None /\ ~matches(self, r.req[1])
              THEN placeholder
              ELSE [node EXCEPT !.attrs = r.attrs],
     self |-> [self EXCEPT !.error = r.error]]

Same(self, node) == [out |-> node, self |-> self]

\* The match block of fold_stmt, lib.rs:127-137
match_stmt(self, stmt) ==
    IF stmt.kind \in TaggedStmtKinds
    THEN replace_unless_matching(self, stmt, EmptyBlockStmt,
                                 extract_requirement(self, stmt.attrs))
    ELSE Same(self, stmt)

\* The match block of fold_expr, lib.rs:143-189
match_expr(self, expr) ==
    IF expr.kind \in TaggedExprKinds
    THEN replace_unless_matching(self, expr, EmptyBlockExpr,
                                 extract_requirement(self, expr.attrs))
    ELSE Same(self, expr)

\* The match block of fold_item, lib.rs:220-245
match_item(self, item) ==
    IF item.kind \in TaggedItemKinds
    THEN replace_unless_matching(self, item, EmptyUse,
                                 extract_requirement(self, item.attrs))
    ELSE Same(self, item)

\* The members of kind k among kids are filtered, the other kids stay in place
RECURSIVE filter_members(_, _, _, _)
filter_members(kids, i, k, acc) ==
    IF i > Len(kids) THEN acc
    ELSE filter_members(kids, i + 1, k,
                        IF kids[i].kind = k
                        THEN filter_map(<<kids[i]>>, 1, acc)
                        ELSE [acc EXCEPT !.out = Append(@, kids[i])])

\* The node p.out with the kids of r, and the filter of r
with_kids(p, r) == [out |-> [p.out EXCEPT !.kids = r.out], self |-> r.self]

\* expr.fields filtered, lib.rs:195-204
retain_fields(p) ==
    with_kids(p, filter_members(p.out.kids, 1, "FieldValue",
                                [out |-> <<>>, self |-> p.self]))

\* expr.arms.retain_mut, lib.rs:210-214
retain_arms(p) ==
    with_kids(p, filter_members(p.out.kids, 1, "Arm",
                                [out |-> <<>>, self |-> p.self]))

\* What the Fold method of a node's kind does to the node itself, before it
\* hands the node to syn::fold to have its children folded.  An expression
\* goes through fold_expr and then, by syn::fold::fold_expr (lib.rs:191),
\* through fold_expr_struct or fold_expr_match.
expr_variant(p) ==
    CASE p.out.kind = "ExprStruct" -> retain_fields(p)
      [] p.out.kind = "ExprMatch" -> retain_arms(p)
      [] OTHER -> p

visit(self, node) ==
    CASE node.kind \in ItemKinds -> match_item(self, node)
      [] node.kind \in StmtKinds -> match_stmt(self, node)
      [] node.kind \in ExprKinds -> expr_variant(match_expr(self, node))
      [] OTHER -> Same(self, node)

\* The end of the run of nodes of kind k that starts at kids[i]: the members
\* of one FieldsNamed / FieldsUnnamed list.
RECURSIVE run_end(_, _, _)
run_end(kids, i, k) ==
    IF i < Len(kids) /\ kids[i + 1].kind = k THEN run_end(kids, i + 1, k) ELSE i

\* The index of the child folded after kids[i]
next_kid(kids, i) ==
    IF kids[i].kind \in FieldKinds THEN run_end(kids, i, kids[i].kind) + 1 ELSE i + 1

\* Appends the folded node of r to the nodes of acc
push(acc, r) == [out |-> Append(acc.out, r.out), self |-> r.self]

\* Appends the filtered fields of r to the nodes of acc
push_all(acc, r) == [out |-> acc.out \o r.out, self |-> r.self]

RECURSIVE fold_children(_, _, _)

\* syn::fold::fold_* of the node p.out: the node itself is kept and its
\* children are folded in order
fold_default(p) ==
    with_kids(p, fold_children(p.out.kids, 1, [out |-> <<>>, self |-> p.self]))

\* The children kids[i..] folded in order; acc is [out, self].  A run of
\* fields is one FieldsNamed / FieldsUnnamed list, any other child goes to
\* the Fold method of its kind.
fold_children(kids, i, acc) ==
    IF i > Len(kids) THEN acc
    ELSE fold_children(kids, next_kid(kids, i),
             CASE kids[i].kind = "FieldNamed" ->
                    push_all(acc, fold_fields_named(acc.self,
                                      SubSeq(kids, i, next_kid(kids, i) - 1)))
               [] kids[i].kind = "FieldUnnamed" ->
                    push_all(acc, fold_fields_unnamed(acc.self,
                                      SubSeq(kids, i, next_kid(kids, i) - 1)))
               [] OTHER ->
                    push(acc, fold_default(visit(acc.self, kids[i]))))

\* lib.rs:126-140
fold_stmt(self, stmt) == fold_default(match_stmt(self, stmt))

\* lib.rs:142-192, with fold_expr_struct and fold_expr_match, lib.rs:194-217
fold_expr(self, expr) == fold_default(expr_variant(match_expr(self, expr)))

\* lib.rs:219-248
fold_item(self, item) == fold_default(match_item(self, item))

----------------------------------------------------------------------------
(* Inputs *)

MaxVersions == 2

MaxItems == 2

S13 == <<"1", ".", "3">>

S14 == <<"1", ".", "4">>

S1x == <<"1", ".", "x">>

Sabc == <<"a", "b", "c">>

SPlus == <<"+", "1", ".", "0", "4">>

V13 == [major |-> 1, minor |-> 3]

V14 == [major |-> 1, minor |-> 4]

versioned_attr(arg, span) ==
    [path |-> "versioned", lit |-> TRUE, arg |-> arg, span |-> span]

\* #[versioned(1.3)]: the argument is no string literal
versioned_nonlit(span) ==
    [path |-> "versioned", lit |-> FALSE, arg |-> <<>>, span |-> span]

other_attr(path, span) ==
    [path |-> path, lit |-> FALSE, arg |-> <<>>, span |-> span]

\* The attribute lists tried at one place s of a tree (spans s+1, s+2, ...)
AttrChoices(s) ==
    { <<>>,
      <<versioned_attr(S13, s + 1)>>,
      <<other_attr("doc", s + 1), versioned_attr(S14, s + 2), other_attr("serde", s + 3)>>,
      <<versioned_attr(SPlus, s + 1)>>,
      <<versioned_attr(S1x, s + 1)>>,
      <<versioned_nonlit(s + 1), other_attr("doc", s + 2)>>,
      <<versioned_attr(S13, s + 1), versioned_attr(S14, s + 2)>>,
      <<versioned_attr(S1x, s + 1), other_attr("doc", s + 2), versioned_attr(S14, s + 3)>> }

Lit == Node("ExprLit", <<>>, <<>>)

\* #[a] struct S { #[b] x: [u8; #[c] 4], #[doc] y: u8 }
StructTree(a, b, c) ==
    Node("ItemStruct", a,
         << Node("FieldNamed", b, <<Node("ExprLit", c, <<>>)>>),
            Node("FieldNamed", <<other_attr("doc", 90)>>, <<>>) >>)

\* fn f() { #[a] let x = #[b] g(1); #[c] m!(); 1 }
FnTree(a, b, c) ==
    Node("ItemFn", <<>>,
         << Node("Local", a, <<Node("ExprCall", b, <<Lit>>)>>),
            Node("StmtMacro", c, <<>>),
            Node("StmtExpr", <<>>, <<Lit>>) >>)

\* fn f() { #[a] S { #[b] x: 1, y: #[c] 2 } }
StructLitTree(a, b, c) ==
    Node("ItemFn", <<>>,
         << Node("StmtExpr", <<>>,
                 << Node("ExprStruct", a,
                         << Node("FieldValue", b, <<Lit>>),
                            Node("FieldValue", <<>>, <<Node("ExprLit", c, <<>>)>>) >>) >>) >>)

\* fn f() { match #[a] g() { #[b] P => { #[c] let x; }, Q => 1 } }
MatchTree(a, b, c) ==
    Node("ItemFn", <<>>,
         << Node("StmtExpr", <<>>,
                 << Node("ExprMatch", <<>>,
                         << Node("ExprCall", a, <<>>),
                            Node("Arm", b,
                                 <<Node("ExprBlock", <<>>, <<Node("Local", c, <<>>)>>)>>),
                            Node("Arm", <<>>, <<Lit>>) >>) >>) >>)

\* #[a] enum E { #[b] A(#[c] u8, u8), B }
EnumTree(a, b, c) ==
    Node("ItemEnum", a,
         << Node("Variant", b,
                 << Node("FieldUnnamed", c, <<>>), Node("FieldUnnamed", <<>>, <<>>) >>),
            Node("Variant", <<>>, <<>>) >>)

\* #[a] mod m { #[b] struct S { #[c] x: u8 } <verbatim item> }
ModTree(a, b, c) ==
    Node("ItemMod", a,
         << Node("ItemStruct", b, <<Node("FieldNamed", c, <<>>)>>),
            Node("ItemVerbatim", <<>>, <<>>) >>)

Trees ==
    UNION { { StructTree(a, b, c), FnTree(a, b, c), StructLitTree(a, b, c),
              MatchTree(a, b, c), EnumTree(a, b, c), ModTree(a, b, c) } :
            a \in AttrChoices(10), b \in AttrChoices(20), c \in AttrChoices(30) }

Targets == {V13, V14}

\* The top-level items of helper's modules: item p of the module is
\* #[a] struct S { #[b] x: u8, #[c] y: u8 }, its attributes chosen by ch.
\* With "nested" the second field is
\* y: [u8; { struct T { #[versioned("abc")] z: u8 } 4 }].
HelperItem(p, ch) ==
    Node("ItemStruct",
         IF ch[1] = "none" THEN <<>> ELSE <<versioned_attr(S13, 100 * p + 1)>>,
         << Node("FieldNamed",
                 IF ch[2] = "none" THEN <<>> ELSE <<versioned_attr(S1x, 100 * p + 11)>>,
                 <<>>),
            Node("FieldNamed",
                 CASE ch[3] = "1.4" -> <<versioned_attr(S14, 100 * p + 21)>>
                   [] ch[3] = "abc" -> <<versioned_attr(Sabc, 100 * p + 21)>>
                   [] OTHER -> <<>>,
                 IF ch[3] # "nested" THEN <<>>
                 ELSE << Node("ExprBlock", <<>>,
                              << Node("ItemStruct", <<>>,
                                      << Node("FieldNamed",
                                              <<versioned_attr(Sabc, 100 * p + 31)>>,
                                              <<>>) >>),
                                 Node("StmtExpr", <<>>, <<Lit>>) >>) >>) >>)

HelperChoices == {"none", "1.3"} \X {"none", "1.x"} \X {"1.4", "abc", "nested"}

ItemLists ==
    UNION { { [p \in 1..n |-> HelperItem(p, f[p])] : f \in [1..n -> HelperChoices] } :
            n \in 0..MaxItems }

Module(content) == [vis |-> "pub", ident |-> "base", content |-> content]

Modules == {Module(None)} \cup {Module(Some(l)) : l \in ItemLists}

TargetStrings == {S13, S14, S1x}

Inputs == UNION { [1..n -> TargetStrings] : n \in 0..MaxVersions }

\* Source locations outside the items: the module's name and the input literals
IdentSpan == 1

InputSpan(i) == 1 + i

----------------------------------------------------------------------------
(* helper, lib.rs:251-301, and versioned, lib.rs:303-314 *)

NoFilter == VersionFilter(None, None)

\* .map(|s| s.value().parse().map_err(|err| Error::new(s.span(), err)))
\* .collect::<syn::Result<Vec<Version>>>(), lib.rs:262-264: the versions of
\* strs[i..], after acc, or the error of the first string that does not parse
RECURSIVE collect_versions(_, _, _)
collect_versions(strs, i, acc) ==
    IF i > Len(strs) THEN Ok(acc)
    ELSE LET r == Version_from_str(strs[i])
         IN  IF r.ok THEN collect_versions(strs, i + 1, Append(acc, r.val))
             ELSE Err([span |-> InputSpan(i), msg |-> r.err])

\* Mutant: a string that does not parse is skipped
parse_versions_lenient(strs) ==
    LET good == SelectSeq(strs, LAMBDA t : Version_from_str(t).ok)
    IN  Ok([i \in 1..Len(good) |-> Version_from_str(good[i]).val])

parse_versions(strs) == collect_versions(strs, 1, <<>>)

\* tokens.extend(quote! { #mod_vis mod #mod_ident { #(#folded_items)* } })
extend(toks, vis, ident, folded) ==
    Append(toks, [vis |-> vis, ident |-> ident, items |-> folded])

\* lib.rs:260-264
ParseVersions ==
    /\ pc = "parse_versions"
    /\ LET r == parse_versions(input)
       IN  IF r.ok
           THEN /\ versions' = r.val
                /\ pc' = "content"
                /\ UNCHANGED result
           ELSE /\ result' = Some(Err(r.err))
                /\ pc' = "returned"
                /\ UNCHANGED versions
    /\ UNCHANGED <<input, module, vi, items, folded_items, filter, tokens, output,
                   log, tree, extracted, once, twice>>

\* lib.rs:266-271
CheckContent ==
    /\ pc = "content"
    /\ IF module.content = None
       THEN /\ result' = Some(Err([span |-> IdentSpan,
                                   msg |-> "found module without content"]))
            /\ pc' = "returned"
       ELSE /\ pc' = "loop"
            /\ UNCHANGED result
    /\ UNCHANGED <<input, module, versions, vi, items, folded_items, filter, tokens,
                   output, log, tree, extracted, once, twice>>

\* Mutant: the items are not cloned anew, the next version filters what the
\* previous one left
StartVersionShared ==
    /\ pc = "loop"
    /\ vi < Len(versions)
    /\ vi' = vi + 1
    /\ items' = IF vi = 0 THEN module.content[1] ELSE folded_items
    /\ folded_items' = <<>>
    /\ filter' = VersionFilter(versions[vi + 1], None)
    /\ pc' = "items"
    /\ UNCHANGED <<input, module, versions, tokens, result, output, log, tree,
                   extracted, once, twice>>

\* lib.rs:273-284: the next version, a clone of the items and a new filter
StartVersion ==
    /\ pc = "loop"
    /\ vi < Len(versions)
    /\ vi' = vi + 1
    /\ items' = module.content[1]
    /\ folded_items' = <<>>
    /\ filter' = VersionFilter(versions[vi + 1], None)
    /\ pc' = "items"
    /\ UNCHANGED <<input, module, versions, tokens, result, output, log, tree,
                   extracted, once, twice>>

\* lib.rs:286-287: folded_items.push(filter.fold_item(item))
FoldItem ==
    /\ pc = "items"
    /\ items # <<>>
    /\ LET r == fold_item(filter, Head(items))
       IN  /\ folded_items' = Append(folded_items, r.out)
           /\ filter' = r.self
    /\ items' = Tail(items)
    /\ log' = Append(log, <<vi, Len(folded_items) + 1>>)
    /\ pc' = "check"
    /\ UNCHANGED <<input, module, versions, vi, tokens, result, output, tree,
                   extracted, once, twice>>

\* Mutant: the pending error is not looked at
CheckErrorIgnored ==
    /\ pc = "check"
    /\ pc' = "items"
    /\ UNCHANGED <<input, module, versions, vi, items, folded_items, filter, tokens,
                   result, output, log, tree, extracted, once, twice>>

\* lib.rs:288-290: if let Some(error) = filter.error { return Err(error); }
CheckError ==
    /\ pc = "check"
    /\ IF filter.error # None
       THEN /\ result' = Some(Err(filter.error[1]))
            /\ pc' = "returned"
       ELSE /\ pc' = "items"
            /\ UNCHANGED result
    /\ UNCHANGED <<input, module, versions, vi, items, folded_items, filter, tokens,
                   output, log, tree, extracted, once, twice>>

\* lib.rs:293-297: the module of this version is appended to tokens
EmitModule ==
    /\ pc = "items"
    /\ items = <<>>
    /\ tokens' = extend(tokens, module.vis, as_ident(filter.version), folded_items)
    /\ pc' = "loop"
    /\ UNCHANGED <<input, module, versions, vi, items, folded_items, filter, result,
                   output, log, tree, extracted, once, twice>>

\* lib.rs:300: Ok(tokens)
ReturnOk ==
    /\ pc = "loop"
    /\ vi = Len(versions)
    /\ result' = Some(Ok(tokens))
    /\ pc' = "returned"
    /\ UNCHANGED <<input, module, versions, vi, items, folded_items, filter, tokens,
                   output, log, tree, extracted, once, twice>>

\* Error::new(err.span(), format!("{err} while using the #[versioned] macro"))
\*     .into_compile_error(), lib.rs:307-311
compile_error(err) ==
    [compile_error |-> <<err.msg, " while using the #[versioned] macro">>,
     span |-> err.span]

\* lib.rs:304-314
Versioned ==
    /\ pc = "returned"
    /\ output' = IF result[1].ok THEN result[1].val ELSE <<compile_error(result[1].err)>>
    /\ pc' = "done"
    /\ UNCHANGED <<input, module, versions, vi, items, folded_items, filter, tokens,
                   result, log, tree, extracted, once, twice>>

Init ==
    /\ input \in Inputs
    /\ module \in Modules
    /\ pc = "parse_versions"
    /\ versions = <<>>
    /\ vi = 0
    /\ items = <<>>
    /\ folded_items = <<>>
    /\ filter = NoFilter
    /\ tokens = <<>>
    /\ result = None
    /\ output = <<>>
    /\ log = <<>>
    /\ tree = EmptyUse
    /\ extracted = None
    /\ once = None
    /\ twice = None

Next ==
    \/ ParseVersions
    \/ CheckContent
    \/ StartVersion
    \/ FoldItem
    \/ CheckError
    \/ EmitModule
    \/ ReturnOk
    \/ Versioned

Spec == Init /\ [][Next]_vars

----------------------------------------------------------------------------
(* One VersionFilter applied to one item: extract_requirement on the item's  *)
(* attributes, fold_item, and fold_item again on the result with a new       *)
(* filter for the same version.                                              *)

Extract ==
    /\ pc = "filter_new"
    /\ extracted' = Some(extract_requirement(filter, tree.attrs))
    /\ pc' = "extracted"
    /\ UNCHANGED <<input, module, versions, vi, items, folded_items, filter, tokens,
                   result, output, log, tree, once, twice>>

FoldOnce ==
    /\ pc = "extracted"
    /\ once' = Some(fold_item(filter, tree))
    /\ pc' = "folded"
    /\ UNCHANGED <<input, module, versions, vi, items, folded_items, filter, tokens,
                   result, output, log, tree, extracted, twice>>

FoldTwice ==
    /\ pc = "folded"
    /\ twice' = Some(fold_item(VersionFilter(filter.version, None), once[1].out))
    /\ pc' = "refolded"
    /\ UNCHANGED <<input, module, versions, vi, items, folded_items, filter, tokens,
                   result, output, log, tree, extracted, once>>

FoldInit ==
    /\ tree \in Trees
    /\ filter \in {VersionFilter(v, None) : v \in Targets}
    /\ pc = "filter_new"
    /\ extracted = None
    /\ once = None
    /\ twice = None
    /\ input = <<>>
    /\ module = Module(None)
    /\ versions = <<>>
    /\ vi = 0
    /\ items = <<>>
    /\ folded_items = <<>>
    /\ tokens = <<>>
    /\ result = None
    /\ output = <<>>
    /\ log = <<>>

FoldNext ==
    \/ Extract
    \/ FoldOnce
    \/ FoldTwice

FoldSpec == FoldInit /\ [][FoldNext]_vars

----------------------------------------------------------------------------
(* Vocabulary of the properties *)

IsRequirement(attr) == attr.path = "versioned"

WellFormed(attr) == IsRequirement(attr) /\ attr.lit /\ Version_from_str(attr.arg).ok

Malformed(attr) == IsRequirement(attr) /\ ~WellFormed(attr)

\* The attributes that are no requirement tags, in their order
OtherTags(attrs) == SelectSeq(attrs, LAMBDA a : ~IsRequirement(a))

\* The version a tag list requires: that of its last well-formed requirement tag
RequiredVersion(attrs) ==
    LET w == SelectSeq(attrs, WellFormed)
    IN  IF w = <<>> THEN None ELSE Some(Version_from_str(w[Len(w)].arg).val)

MalformedSpans(attrs) == {attrs[i].span : i \in {j \in 1..Len(attrs) : Malformed(attrs[j])}}

NonMatching(n, V) == RequiredVersion(n.attrs) # None /\ RequiredVersion(n.attrs)[1] # V

\* Kinds whose non-matching nodes leave their parent's list
DropKinds == FieldKinds \cup {"FieldValue", "Arm"}

\* Kinds whose non-matching nodes are replaced where they stand
ReplaceKinds == TaggedItemKinds \cup TaggedStmtKinds \cup TaggedExprKinds

SupportedKinds == DropKinds \cup ReplaceKinds

PlaceholderOf(kind) ==
    CASE kind \in TaggedItemKinds -> EmptyUse
      [] kind \in TaggedStmtKinds -> EmptyBlockStmt
      [] kind \in TaggedExprKinds -> EmptyBlockExpr

Kept(kids, V) == SelectSeq(kids, LAMBDA k : ~(k.kind \in DropKinds /\ NonMatching(k, V)))

\* m is what the per-kind policy makes of the node n for the version V.  With
\* deep, the children of a struct field are held to the policy as well.
RECURSIVE Policy(_, _, _, _)
Policy(n, m, V, deep) ==
    IF n.kind \in ReplaceKinds /\ NonMatching(n, V)
    THEN m = PlaceholderOf(n.kind)
    ELSE /\ m.kind = n.kind
         /\ IF n.kind \in FieldKinds /\ ~deep
            THEN m.kids = n.kids
            ELSE /\ Len(m.kids) = Len(Kept(n.kids, V))
                 /\ \A i \in 1..Len(m.kids) : Policy(Kept(n.kids, V)[i], m.kids[i], V, deep)

\* No node of a supported kind in the tree m carries a requirement tag
RECURSIVE NoRequirementTag(_)
NoRequirementTag(m) ==
    /\ m.kind \in SupportedKinds => \A i \in 1..Len(m.attrs) : ~IsRequirement(m.attrs[i])
    /\ \A i \in 1..Len(m.kids) : NoRequirementTag(m.kids[i])

\* Every node of a supported kind that the traversal reached and kept has
\* its other tags, in their order
RECURSIVE OtherTagsKept(_, _, _)
OtherTagsKept(n, m, V) ==
    \/ n.kind \in ReplaceKinds /\ NonMatching(n, V)
    \/ /\ n.kind \in SupportedKinds => m.attrs = OtherTags(n.attrs)
       /\ \/ n.kind \in FieldKinds
          \/ /\ Len(m.kids) = Len(Kept(n.kids, V))
             /\ \A i \in 1..Len(m.kids) : OtherTagsKept(Kept(n.kids, V)[i], m.kids[i], V)

\* The spans of the malformed requirement tags, on nodes of the given kinds,
\* that the traversal of n for the version V reaches
RECURSIVE ReachedBad(_, _, _)
ReachedBad(n, V, kinds) ==
    (IF n.kind \in kinds THEN MalformedSpans(n.attrs) ELSE {})
    \cup (IF n.kind \in SupportedKinds /\ (NonMatching(n, V) \/ n.kind \in FieldKinds)
          THEN {}
          ELSE UNION {ReachedBad(n.kids[i], V, kinds) : i \in 1..Len(n.kids)})

\* The spans of the malformed requirement tags of the fields anywhere in n
RECURSIVE BadFieldSpans(_)
BadFieldSpans(n) ==
    (IF n.kind \in FieldKinds THEN MalformedSpans(n.attrs) ELSE {})
    \cup UNION {BadFieldSpans(n.kids[i]) : i \in 1..Len(n.kids)}

Min(S) == CHOOSE x \in S : \A y \in S : x <= y

Last(q) == q[Len(q)]

Content == module.content[1]

InputsValid ==
    /\ \A i \in 1..Len(input) : Version_from_str(input[i]).ok
    /\ module.content # None

Returned == pc \in {"returned", "done"}

Failed == Returned /\ ~result[1].ok

\* The output holds no module (only, at most, the compile error)
NoModuleEmitted == \A i \in 1..Len(output) : "ident" \notin DOMAIN output[i]

\* fold_item of item k by a new filter for the v-th version
FoldOf(e) == fold_item(VersionFilter(versions[e[1]], None), Content[e[2]])

\* The items emitted for the version V alone
EmitFor(V) == [k \in 1..Len(Content) |-> fold_item(VersionFilter(V, None), Content[k]).out]

\* The pairs <<version index, item index>> whose traversal reaches a
\* malformed requirement tag of a field
FailPairs ==
    {e \in (1..Len(versions)) \X (1..Len(Content)) :
        ReachedBad(Content[e[2]], versions[e[1]], FieldKinds) # {}}

FirstPair(S) ==
    CHOOSE e \in S : \A f \in S : e[1] < f[1] \/ (e[1] = f[1] /\ e[2] <= f[2])

Folded == pc \in {"folded", "refolded"}

----------------------------------------------------------------------------
(* Properties of helper, checked under Spec *)

\* C1: emission is all-or-nothing and fail-fast.  Once the pending error of
\* the filter is set by folding an item, helper checks it and returns that
\* very error; the failing fold is the last one (every earlier fold, of this
\* and of the earlier versions, left no error; the items after it are still
\* unfolded), and the output holds no module, whatever tokens held.
C1_FailFast ==
    /\ filter.error # None => pc \in {"check", "returned", "done"}
    /\ Returned /\ filter.error # None =>
          /\ result = Some(Err(filter.error[1]))
          /\ log # <<>>
          /\ Last(log) = <<vi, Len(folded_items)>>
          /\ Len(log) = (vi - 1) * Len(Content) + Len(folded_items)
          /\ Len(items) = Len(Content) - Len(folded_items)
          /\ FoldOf(Last(log)).self.error = filter.error
          /\ \A j \in 1..(Len(log) - 1) : FoldOf(log[j]).self.error = None
    /\ pc = "done" /\ ~result[1].ok => NoModuleEmitted

\* The second version fails on its first item after the first version was
\* filtered and put into tokens; the second item is never folded.
C1_Witness ==
    /\ pc = "done"
    /\ filter.error # None
    /\ vi = 2
    /\ Len(tokens) = 1
    /\ Len(folded_items) = 1
    /\ items # <<>>

\* C2, as claimed: whenever any field anywhere in the module has a malformed
\* requirement tag, emission for any requested versions fails with an error
\* located at such a tag.
C2_AsClaimed ==
    (/\ pc = "done"
     /\ InputsValid
     /\ input # <<>>
     /\ \E k \in 1..Len(Content) : BadFieldSpans(Content[k]) # {})
    => /\ ~result[1].ok
       /\ result[1].err.span \in UNION {BadFieldSpans(Content[k]) : k \in 1..Len(Content)}

\* C2, amended: if for some requested version the traversal reaches a field
\* with a malformed requirement tag, emission fails and emits no module, and
\* the error is located at a malformed tag reached in the first item, of the
\* first version, whose traversal reaches one.
C2_Amended ==
    (pc = "done" /\ InputsValid /\ FailPairs # {})
    => /\ ~result[1].ok
       /\ NoModuleEmitted
       /\ result[1].err.span \in
            ReachedBad(Content[FirstPair(FailPairs)[2]],
                       versions[FirstPair(FailPairs)[1]], SupportedKinds)

\* The malformed field of the first item is out of reach for the first
\* version (its struct is replaced) and fails the second.
C2_Witness ==
    /\ pc = "done"
    /\ InputsValid
    /\ Len(versions) = 2
    /\ Content # <<>>
    /\ BadFieldSpans(Content[1]) # {}
    /\ ReachedBad(Content[1], versions[1], FieldKinds) = {}
    /\ ReachedBad(Content[1], versions[2], FieldKinds) # {}
    /\ ~result[1].ok
    /\ Len(log) = Len(Content) + 1

\* C3: validation precedes filtering.  No item is folded unless every input
\* string parsed as a Version and the module has a body; otherwise helper
\* returns an error, nothing was folded or put into tokens, and no module is
\* emitted.
C3_ValidationFirst ==
    /\ log # <<>> => InputsValid
    /\ Returned /\ ~InputsValid => ~result[1].ok /\ log = <<>> /\ tokens = <<>>
    /\ pc = "done" /\ ~InputsValid => NoModuleEmitted

\* A malformed version string after a valid one, for a module with items
C3_Witness ==
    /\ pc = "done"
    /\ Len(input) = 2
    /\ Version_from_str(input[1]).ok
    /\ ~Version_from_str(input[2]).ok
    /\ module.content # None
    /\ Content # <<>>
    /\ result[1].err.span = InputSpan(2)
    /\ log = <<>>

\* C6: on success the output is one module per requested version, in the
\* order requested, named after the version, and the items of the module of
\* a version are those emitted for that version alone.
C6_Independence ==
    (pc = "done" /\ result[1].ok)
    => /\ Len(output) = Len(input)
       /\ \A i \in 1..Len(output) :
            /\ output[i] = [vis   |-> module.vis,
                            ident |-> as_ident(Version_from_str(input[i]).val),
                            items |-> EmitFor(Version_from_str(input[i]).val)]
            /\ input[i] = S13 => output[i].ident = <<"v", "1", "_", "3">>
            /\ input[i] = S14 => output[i].ident = <<"v", "1", "_", "4">>

\* Two versions whose modules differ
C6_Witness ==
    /\ pc = "done"
    /\ result[1].ok
    /\ Len(output) = 2
    /\ input[1] = S14
    /\ input[2] = S13
    /\ output[1].items # output[2].items

\* C10, as claimed: the pending error is write-once, so the error returned
\* is the first malformed tag met in the traversal of the failing item.  (In
\* the items of this specification the traversal meets the tags in the order
\* of their spans.)
C10_AsClaimed ==
    (pc = "done" /\ filter.error # None)
    => result[1].err.span =
         Min(ReachedBad(Content[Len(folded_items)], filter.version, SupportedKinds))

----------------------------------------------------------------------------
(* Properties of the filter, checked under FoldSpec *)

\* C4: the per-kind policy.  Of a node the traversal reaches whose
\* requirement is Exactly(R): if R is the target version the node is kept
\* with its content; otherwise a struct field, a struct-literal field or a
\* match arm is left out of its parent's list (the others keep their order)
\* and a statement, an expression or an item is replaced where it stands by
\* its placeholder, the list keeping its length.
C4_Policy == Folded => Policy(tree, once[1].out, filter.version, FALSE)

\* A struct literal is kept, one of its fields is dropped and the value of
\* the other is replaced by the empty block.
C4_Witness ==
    /\ pc = "folded"
    /\ tree.kind = "ItemFn"
    /\ tree.kids[1].kids[1].kind = "ExprStruct"
    /\ Len(tree.kids[1].kids[1].kids) = 2
    /\ once[1].out.kids[1].kids[1].kind = "ExprStruct"
    /\ once[1].out.kids[1].kids[1].kids = <<Node("FieldValue", <<>>, <<EmptyBlockExpr>>)>>

\* C5, as claimed: after a successful pass no node of a supported kind in
\* the output carries a requirement tag, and the other tags are kept.
C5_AsClaimed ==
    (Folded /\ once[1].self.error = None)
    => /\ NoRequirementTag(once[1].out)
       /\ OtherTagsKept(tree, once[1].out, filter.version)

\* C7: idempotence.  If the first pass succeeds, a second pass over its
\* result by a new filter for the same version succeeds and changes nothing.
C7_Idempotent ==
    (pc = "refolded" /\ once[1].self.error = None)
    => twice[1].self.error = None /\ twice[1].out = once[1].out

\* A pass that replaced a statement and kept another, folded again
C7_Witness ==
    /\ pc = "refolded"
    /\ once[1].self.error = None
    /\ tree.kind = "ItemFn"
    /\ tree.kids[1].kind = "Local"
    /\ once[1].out.kids[1] = EmptyBlockStmt
    /\ once[1].out.kids[2].kind = "StmtMacro"
    /\ tree.kids[2].attrs # once[1].out.kids[2].attrs
    /\ twice[1].out = once[1].out

\* C8, as claimed: below every kept node, struct fields included, the
\* traversal goes on, and a tagged node found there is filtered.
C8_AsClaimed == Folded => Policy(tree, once[1].out, filter.version, TRUE)

\* C9, as claimed: of several requirement tags one call consumes the first
\* only, and returns its requirement.
C9_AsClaimed ==
    (pc = "extracted" /\ Len(SelectSeq(tree.attrs, IsRequirement)) > 1)
    => LET f == Min({i \in 1..Len(tree.attrs) : IsRequirement(tree.attrs[i])})
       IN  /\ extracted[1].attrs =
                SubSeq(tree.attrs, 1, f - 1) \o SubSeq(tree.attrs, f + 1, Len(tree.attrs))
           /\ extracted[1].req = IF WellFormed(tree.attrs[f])
                                 THEN Some(VersionReq_from_str(tree.attrs[f].arg).val)
                                 ELSE None

\* C9, amended: one call consumes every requirement tag of the list, the
\* other tags keep their order, and the requirement returned is that of the
\* last well-formed requirement tag.
C9_Amended ==
    pc # "filter_new"
    => /\ extracted[1].attrs = OtherTags(tree.attrs)
       /\ extracted[1].req =
            IF RequiredVersion(tree.attrs) = None THEN None
            ELSE Some([variant |-> "Exactly", version |-> RequiredVersion(tree.attrs)[1]])

\* Two well-formed requirement tags: both are gone, the second one counts
C9_Witness ==
    /\ pc = "extracted"
    /\ tree.attrs = <<versioned_attr(S13, 11), versioned_attr(S14, 12)>>
    /\ extracted[1].attrs = <<>>
    /\ extracted[1].req = Some([variant |-> "Exactly", version |-> V14])

====
